---- MODULE Spec2Model ----
(***************************************************************************)
(* Footnote engine of dp2ppgen (src/dp2ppgen/dp2ppgen.py):                 *)
(* processFootnotes = blank-line removal, parseFootnotes (scan + join),    *)
(* stripFootnoteMarkup, processFootnoteAnchors, generatePpgenFootnoteMarkup*)
(* and the part of main around it: validateDpMarkup, the --force gate,     *)
(* doStandardConversions and the saving of the output file.                *)
(*                                                                         *)
(* A text line is a sequence of tokens.  A token is one character          *)
(* ("[", "]", "*", ":", " ", "-", a letter, a digit) or a fixed run of     *)
(* characters that the program's patterns only ever treat as a whole       *)
(* ("[Footnote", a page identifier, a dot command name, a word of body     *)
(* text).  Every regular expression of the source is an operator over      *)
(* token sequences.  Line numbers are 0-based as in the source; At(buf,n)  *)
(* reads line n.                                                           *)
(***************************************************************************)
EXTENDS Integers, Sequences, FiniteSets, TLC

VARIABLES pc, buf, dest, footnotes, joinI, joinCount, lineNum, pending,
          currentScanPage, fnIDs, anchorsThisPage, fnUniqueAnchorCount,
          log, anchorLog, doc, parseBuf,
          args, infile, errorCount, outfile, runs

vars == <<pc, buf, dest, footnotes, joinI, joinCount, lineNum, pending,
          currentScanPage, fnIDs, anchorsThisPage, fnUniqueAnchorCount,
          log, anchorLog, doc, parseBuf, args, infile, errorCount, outfile, runs>>

\* the state of main around processFootnotes: the options --force and
\* --dryrun, the lines of the input file (main's inBuf), the count that validateDpMarkup
\* returned, the lines written to the output file; runs counts the calls of
\* processFootnotes that have returned and whose output was fed in again
mainVars == <<args, infile, errorCount, outfile, runs>>

----------------------------------------------------------------------------
(* Tokens *)

Letters == {"A", "B"}

Digits == {"0", "1", "2", "3", "4", "5", "6", "7", "8", "9"}

DigitSeq == <<"0", "1", "2", "3", "4", "5", "6", "7", "8", "9">>

\* words of two characters (they can satisfy \w{1,2})
TwoCharWords == {"of", "in"}

\* words of three or more characters
LongWords == {"word", "inued", "rest", "text", "Some", "note", "Reference"}

PageIds == <<"001.png", "002.png", "003.png", "010.png">>

PageIdSet == {PageIds[k] : k \in 1..Len(PageIds)}

\* dot command names: a dot and two characters of [a-z0-9]
DotCmds == {".h2", ".sp", ".pb", ".de", ".dv", ".fn", ".fm", ".bn", ".pn"}

\* Python's None where the other values are line numbers
None == -1000

\* Python's None where the other values are strings (a pattern that does not match)
NoMatch == "<None>"

\* no match where the other values are token sequences
NoLabel == <<>>

\* currentScanPage = 0 before the first page break
NoPage == "0"

\* a local variable that has not been assigned yet
Unbound == <<"<unbound>">>

----------------------------------------------------------------------------
(* Python list and string primitives *)

At(s, n) == s[n + 1]

Last(s) == s[Len(s)]

Front(s) == SubSeq(s, 1, Len(s) - 1)

\* s[:n] and s[n:] for 0 <= n <= len(s)
Take(s, n) == SubSeq(s, 1, n)

Drop(s, n) == SubSeq(s, n + 1, Len(s))

\* start or stop of a slice, clamped as list slicing does
SliceIndex(n, len) ==
  IF n < 0 THEN (IF n + len < 0 THEN 0 ELSE n + len)
  ELSE IF n > len THEN len ELSE n

\* list.insert(n, x)
ListInsert(s, n, x) ==
  LET k == SliceIndex(n, Len(s)) IN Take(s, k) \o <<x>> \o Drop(s, k)

\* s[a:b+1] = lines: the assignment that takes the line at the stop away
SliceOverwrite(s, a, b, lines) ==
  LET i == SliceIndex(a, Len(s))
      j0 == SliceIndex(b, Len(s))
      j == IF j0 < i THEN i ELSE j0
  IN Take(s, i) \o lines \o Drop(s, j + 1)

\* s[a:b] = lines
SliceAssign(s, a, b, lines) ==
  LET i == SliceIndex(a, Len(s))
      j0 == SliceIndex(b, Len(s))
      j == IF j0 < i THEN i ELSE j0
  IN Take(s, i) \o lines \o Drop(s, j)

\* str(n) for n >= 0, as digit tokens
RECURSIVE Fmt(_)
Fmt(n) ==
  IF n < 10 THEN <<DigitSeq[n + 1]>>
  ELSE Fmt(n \div 10) \o <<DigitSeq[(n % 10) + 1]>>

StartsWith(line, prefix) ==
  /\ Len(line) >= Len(prefix)
  /\ SubSeq(line, 1, Len(prefix)) = prefix

EndsWith(line, suffix) ==
  /\ Len(line) >= Len(suffix)
  /\ SubSeq(line, Len(line) - Len(suffix) + 1, Len(line)) = suffix

\* number of occurrences of a token of set S (len(re.findall(...)))
RECURSIVE CountIn(_, _)
CountIn(line, S) ==
  IF line = <<>> THEN 0
  ELSE (IF Head(line) \in S THEN 1 ELSE 0) + CountIn(Tail(line), S)

\* index (1-based) of the first " " of the line, 0 if there is none
RECURSIVE FirstSpace(_, _)
FirstSpace(line, k) ==
  IF k > Len(line) THEN 0
  ELSE IF line[k] = " " THEN k ELSE FirstSpace(line, k + 1)

\* line.split(' ',1)
Split1(line) ==
  LET k == FirstSpace(line, 1)
  IN IF k = 0 THEN <<line>>
     ELSE <<SubSeq(line, 1, k - 1), SubSeq(line, k + 1, Len(line))>>

----------------------------------------------------------------------------
(* Line classification *)

\* re.match(r"\s*$", line)
isLineBlank(line) == \A k \in 1..Len(line) : line[k] = " "

\* the three page break forms; the identifier token stands for
\* \w+\.(png|jpg|jpeg)
parseScanPage(line) ==
  IF /\ Len(line) >= 3
     /\ line[1] \in {"-----File:", "//", ".bn"}
     /\ line[2] = " "
     /\ line[3] \in PageIdSet
  THEN line[3]
  ELSE NoMatch

isLinePageBreak(line) == parseScanPage(line) # NoMatch

\* re.match(r"\*?\[Footnote", line)
OpensFootnote(line) ==
  \/ StartsWith(line, <<"[Footnote">>)
  \/ StartsWith(line, <<"*", "[Footnote">>)

\* number of trailing "*" of the line
RECURSIVE TrailingStars(_)
TrailingStars(line) ==
  IF line # <<>> /\ Last(line) = "*" THEN 1 + TrailingStars(Front(line))
  ELSE 0

\* re.search(r"][\*]*$", line)
ClosesBracket(line) ==
  LET n == Len(line) - TrailingStars(line)
  IN n >= 1 /\ line[n] = "]"

\* re.sub(r"][\*]*$", "", line)
StripClose(line) ==
  IF ClosesBracket(line)
  THEN Take(line, Len(line) - TrailingStars(line) - 1)
  ELSE line

\* len(findall("\[")) - len(findall("\]"))
BracketDelta(line) ==
  CountIn(line, {"[", "[Footnote"}) - CountIn(line, {"]"})

----------------------------------------------------------------------------
(* parseFootnotes, first loop: one record per [Footnote block *)

\* characters of \w that are single tokens
WordChars == Letters \cup Digits

\* inner while loop: the line number the block ends at (endLine)
RECURSIVE BlockEnd(_, _, _)
BlockEnd(inBuf, n, bracketLevel) ==
  IF n < Len(inBuf) - 1
  THEN LET level == bracketLevel + BracketDelta(At(inBuf, n))
       IN IF level = 0 /\ ClosesBracket(At(inBuf, n))
          THEN n
          ELSE BlockEnd(inBuf, n + 1, level)
  ELSE n

\* re.match(r"\[Footnote (\w{1,2}):", line): group 1, or NoLabel
FootnoteLabel(line) ==
  IF StartsWith(line, <<"[Footnote", " ">>)
  THEN IF Len(line) >= 4 /\ line[3] \in WordChars \cup TwoCharWords /\ line[4] = ":"
       THEN <<line[3]>>
       ELSE IF /\ Len(line) >= 5
               /\ line[3] \in WordChars
               /\ line[4] \in WordChars
               /\ line[5] = ":"
            THEN <<line[3], line[4]>>
            ELSE NoLabel
  ELSE NoLabel

\* drops n tokens and one following space if there is one (the " ?" of the patterns)
DropLabel(line, n) ==
  IF Len(line) > n /\ line[n + 1] = " " THEN Drop(line, n + 1) ELSE Drop(line, n)

\* re.sub(r"^\*\[Footnote: ?", "", line)
SubStarBare(line) ==
  IF StartsWith(line, <<"*", "[Footnote", ":">>) THEN DropLabel(line, 3) ELSE line

\* re.sub(r"^\[Footnote [A-Za-z]: ?", "", line)
SubLetter(line) ==
  IF /\ StartsWith(line, <<"[Footnote", " ">>)
     /\ Len(line) >= 4
     /\ line[3] \in Letters
     /\ line[4] = ":"
  THEN DropLabel(line, 4)
  ELSE line

\* number of digit tokens from position k on
RECURSIVE DigitRun(_, _)
DigitRun(line, k) ==
  IF k <= Len(line) /\ line[k] \in Digits THEN 1 + DigitRun(line, k + 1) ELSE 0

\* re.sub(r"^\[Footnote \d+: ?", "", line)
SubDigits(line) ==
  LET d == DigitRun(line, 3)
  IN IF /\ StartsWith(line, <<"[Footnote", " ">>)
        /\ d >= 1
        /\ Len(line) >= 3 + d
        /\ line[3 + d] = ":"
     THEN DropLabel(line, 3 + d)
     ELSE line

StripLabel(line) == SubDigits(SubLetter(SubStarBare(line)))

\* lines 1415-1421: the label is stripped from every line of the block, the
\* closing bracket from the last one
FnTextOf(fnBlock) ==
  LET stripped == [k \in 1..Len(fnBlock) |-> StripLabel(fnBlock[k])]
  IN [stripped EXCEPT ![Len(fnBlock)] = StripClose(stripped[Len(fnBlock)])]

\* lines 1371-1424 for the block opening at startLine
MakeRecord(inBuf, startLine, page, fnID) ==
  LET endLine == BlockEnd(inBuf, startLine, 0)
      fnBlock == SubSeq(inBuf, startLine + 1, endLine + 1)
  IN [fnBlock |-> fnBlock,
      fnText |-> FnTextOf(fnBlock),
      fnID |-> fnID,
      startLine |-> startLine,
      endLine |-> endLine,
      paragraphEnd |-> -1,
      chapterEnd |-> -1,
      joinToPrevious |-> StartsWith(fnBlock[1], <<"*", "[Footnote">>),
      joinToNext |-> EndsWith(Last(fnBlock), <<"]", "*">>),
      scanPageNum |-> page]

\* lines 1361-1426; fnID is the local variable that keeps its value from one
\* block to the next; appending a record while it is unassigned raises
\* UnboundLocalError
RECURSIVE ParseFrom(_, _, _, _, _)
ParseFrom(inBuf, n, page, fnID, acc) ==
  IF n >= Len(inBuf) THEN [crashed |-> FALSE, footnotes |-> acc]
  ELSE LET line == At(inBuf, n)
           page2 == IF isLinePageBreak(line) THEN parseScanPage(line) ELSE page
       IN IF OpensFootnote(line)
          THEN LET label == FootnoteLabel(line)
                   fnID2 == IF label # NoLabel THEN label ELSE fnID
                   rec == MakeRecord(inBuf, n, page2, fnID2)
               IN IF fnID2 = Unbound
                  THEN [crashed |-> TRUE, footnotes |-> acc]
                  ELSE ParseFrom(inBuf, rec.endLine + 1, page2, fnID2,
                                 Append(acc, rec))
          ELSE ParseFrom(inBuf, n + 1, page2, fnID, acc)

ParseScan(inBuf) == ParseFrom(inBuf, 0, NoPage, Unbound, <<>>)

----------------------------------------------------------------------------
(* parseFootnotes, second loop: joining the blocks split by a page break *)

\* s[k] with Python's negative indices; the caller checks -len <= k < len
PyAt(s, k) == IF k >= 0 THEN s[k + 1] ELSE s[Len(s) + k + 1]

\* the position (>= 0) that index k stands for
PyPos(s, k) == IF k >= 0 THEN k ELSE Len(s) + k

\* lines 1443-1446: walks back from toFn while the record has no joinToNext
\* and is on page toScanPageNum; None stands for IndexError
RECURSIVE FindJoinTarget(_, _, _)
FindJoinTarget(fns, toFn, toScanPageNum) ==
  IF toFn < -Len(fns) THEN None
  ELSE IF /\ PyAt(fns, toFn).joinToNext = FALSE
          /\ PyAt(fns, toFn).scanPageNum = toScanPageNum
       THEN FindJoinTarget(fns, toFn - 1, toScanPageNum)
       ELSE toFn

\* "emdash" is the token of the character U+2014
DashChars == {"-", "emdash"}

\* re.search(r"(?<![-emdash])-\*?$", line)
HyphenEnd(line) ==
  LET n == Len(line)
  IN \/ /\ n >= 1
        /\ line[n] = "-"
        /\ (n = 1 \/ line[n - 1] \notin DashChars)
     \/ /\ n >= 2
        /\ line[n] = "*"
        /\ line[n - 1] = "-"
        /\ (n = 2 \/ line[n - 2] \notin DashChars)

\* the merge without the hyphenation of lines 1472-1482
MergePlain(to, from, needsHyphenJoin) ==
  [to EXCEPT !.fnBlock = @ \o from.fnBlock,
             !.fnText = @ \o from.fnText,
             !.joinToNext = FALSE]

\* lines 1472-1488 when the absorbing record and the fragment are two records
MergeInto(to, from, needsHyphenJoin) ==
  LET parts == Split1(from.fnText[1])
      fromWord == parts[1]
      fromText == IF ~needsHyphenJoin THEN from.fnText
                  ELSE IF Len(parts) > 1
                       THEN [from.fnText EXCEPT ![1] = parts[2]]
                       ELSE Tail(from.fnText)
      toText == IF ~needsHyphenJoin THEN to.fnText
                ELSE [to.fnText EXCEPT ![Len(to.fnText)] = @ \o fromWord]
  IN [to EXCEPT !.fnBlock = @ \o from.fnBlock,
                !.fnText = toText \o fromText,
                !.joinToNext = FALSE]

\* del s[k] for 0 <= k < len(s)
DelAt(s, k) == Take(s, k) \o Drop(s, k + 1)

\* one iteration of the while loop of lines 1433-1491 for index i > 0
JoinIteration(fns, i) ==
  LET frag == At(fns, i)
      e1 == IF frag.joinToNext
            THEN <<"ERROR: Unresolved join detected", "ERROR: ScanPg">>
            ELSE <<>>
      same == [crashed |-> FALSE, footnotes |-> fns, errs |-> e1, joined |-> FALSE]
  IN IF ~frag.joinToPrevious THEN same
     ELSE LET toFn == FindJoinTarget(fns, i - 1, At(fns, i - 1).scanPageNum)
          IN IF toFn = None THEN [same EXCEPT !.crashed = TRUE]
             ELSE LET to == PyAt(fns, toFn)
                      pos == PyPos(fns, toFn)
                  IN IF ~to.joinToNext
                     THEN [same EXCEPT !.errs = e1 \o
                             <<"ERROR: Attempt to join footnote failed!",
                               "ERROR: ScanPg", "ERROR: ScanPg">>]
                     ELSE LET hyph == HyphenEnd(Last(to.fnText))
                          IN IF hyph /\ frag.fnText[1] = <<>>
                             THEN [same EXCEPT !.crashed = TRUE]
                             ELSE LET star == hyph /\ frag.fnText[1][1] = "*"
                                      e2 == IF hyph /\ ~star
                                            THEN <<"ERROR: Footnote : Unresolved hyphenation">>
                                            ELSE <<>>
                                      merged ==
                                        IF pos = i THEN fns
                                        ELSE [fns EXCEPT ![pos + 1] =
                                                MergeInto(to, frag, star)]
                                  IN [crashed |-> FALSE,
                                      footnotes |-> DelAt(merged, i),
                                      errs |-> e1 \o e2,
                                      joined |-> TRUE]

----------------------------------------------------------------------------
(* stripFootnoteMarkup *)

\* inner while loop of lines 1273-1286: the line number it leaves lineNum at
RECURSIVE SkipBlock(_, _, _)
SkipBlock(inBuf, n, bracketLevel) ==
  IF n < Len(inBuf) - 1
  THEN LET level == bracketLevel + BracketDelta(At(inBuf, n))
       IN IF level = 0 /\ ClosesBracket(At(inBuf, n))
          THEN n + 1
          ELSE SkipBlock(inBuf, n + 1, level)
  ELSE n

\* outer while loop; on the last line of the buffer the inner loop does not
\* run, so a last line that opens a block leaves lineNum where it is for ever
RECURSIVE StripFrom(_, _, _)
StripFrom(inBuf, n, outBuf) ==
  IF n >= Len(inBuf) THEN [hung |-> FALSE, out |-> outBuf]
  ELSE IF OpensFootnote(At(inBuf, n))
       THEN IF n = Len(inBuf) - 1 THEN [hung |-> TRUE, out |-> outBuf]
            ELSE StripFrom(inBuf, SkipBlock(inBuf, n, 0), outBuf)
       ELSE StripFrom(inBuf, n + 1, Append(outBuf, At(inBuf, n)))

\* a strip that leaves every line where it is
StripNothing(inBuf) == [hung |-> FALSE, out |-> inBuf]

stripFootnoteMarkup(inBuf) == StripFrom(inBuf, 0, <<>>)

----------------------------------------------------------------------------
(* line searches *)

\* "not retVal": None and 0 are both false
Falsy(v) == v = None \/ v = 0

RECURSIVE NextEmptyFrom(_, _, _)
NextEmptyFrom(b, n, retVal) ==
  IF n < Len(b) /\ Falsy(retVal)
  THEN NextEmptyFrom(b, n + 1, IF isLineBlank(At(b, n)) THEN n ELSE retVal)
  ELSE retVal

findNextEmptyLine(b, startLine) == NextEmptyFrom(b, startLine, None)

RECURSIVE PrevNonEmptyFrom(_, _, _)
PrevNonEmptyFrom(b, n, retVal) ==
  IF n >= 0 /\ Falsy(retVal)
  THEN PrevNonEmptyFrom(b, n - 1, IF ~isLineBlank(At(b, n)) THEN n ELSE retVal)
  ELSE retVal

findPreviousNonEmptyLine(b, startLine) == PrevNonEmptyFrom(b, startLine, None)

RECURSIVE NextChapterFrom(_, _, _)
NextChapterFrom(b, n, retVal) ==
  IF n < Len(b) - 1 /\ Falsy(retVal)
  THEN NextChapterFrom(b, n + 1,
                       IF StartsWith(At(b, n), <<".h2">>) THEN n ELSE retVal)
  ELSE retVal

findNextChapter(b, startLine) == NextChapterFrom(b, startLine, None)

\* every token that begins with a character of \w
WordTokens == WordChars \cup TwoCharWords \cup LongWords \cup PageIdSet

\* re.match(r"(\.[a-z0-9]{2} |[*#]\/|\/[*#]|\*?\[\w+|\/\/)", line)
MarkupStart(line) ==
  LET rest == IF line # <<>> /\ line[1] = "*" THEN Tail(line) ELSE line
  IN \/ Len(line) >= 2 /\ line[1] \in DotCmds /\ line[2] = " "
     \/ Len(line) >= 1 /\ line[1] \in {"*/", "#/", "/*", "/#", "//"}
     \/ Len(rest) >= 1 /\ rest[1] = "[Footnote"
     \/ Len(rest) >= 2 /\ rest[1] = "[" /\ rest[2] \in WordTokens

isLineOriginalText(line) == ~MarkupStart(line) /\ ~isLinePageBreak(line)

\* the while loop of findPreviousLineOfText from line n (n is a line number):
\* the result is a line number, Hang when the loop never ends, or Crash when
\* None >= 0 raises TypeError
Hang == -2000

Crash == -3000

RECURSIVE PrevTextFrom(_, _)
PrevTextFrom(b, n) ==
  IF n = None THEN Crash
  ELSE IF n < 0 THEN n
  ELSE IF isLineOriginalText(At(b, n))
       THEN (IF n = 0 THEN Hang ELSE n)
       ELSE IF n > 0
            THEN PrevTextFrom(b, findPreviousNonEmptyLine(b, n - 1))
            ELSE Hang

findPreviousLineOfText(b, startLine) ==
  PrevTextFrom(b, findPreviousNonEmptyLine(b, startLine))

----------------------------------------------------------------------------
(* processFootnoteAnchors *)

\* re.findall("\[([A-Za-z]|[0-9]{1,2})\]", line), from token k on
RECURSIVE AnchorsFrom(_, _)
AnchorsFrom(line, k) ==
  IF k > Len(line) THEN <<>>
  ELSE IF /\ line[k] = "["
          /\ k + 2 <= Len(line)
          /\ line[k + 1] \in Letters \cup Digits
          /\ line[k + 2] = "]"
       THEN <<(<<line[k + 1]>>)>> \o AnchorsFrom(line, k + 3)
       ELSE IF /\ line[k] = "["
               /\ k + 3 <= Len(line)
               /\ line[k + 1] \in Digits
               /\ line[k + 2] \in Digits
               /\ line[k + 3] = "]"
            THEN <<(<<line[k + 1], line[k + 2]>>)>> \o AnchorsFrom(line, k + 4)
            ELSE AnchorsFrom(line, k + 1)

FindAnchors(line) == AnchorsFrom(line, 1)

\* re.sub("\[id\]", "[new]", line), from token k on
RECURSIVE SubAnchorFrom(_, _, _, _)
SubAnchorFrom(line, k, id, new) ==
  LET pat == <<"[">> \o id \o <<"]">>
  IN IF k > Len(line) THEN <<>>
     ELSE IF /\ k + Len(pat) - 1 <= Len(line)
             /\ SubSeq(line, k, k + Len(pat) - 1) = pat
          THEN <<"[">> \o new \o <<"]">>
               \o SubAnchorFrom(line, k + Len(pat), id, new)
          ELSE <<line[k]>> \o SubAnchorFrom(line, k + 1, id, new)

SubAnchor(line, id, new) == SubAnchorFrom(line, 1, id, new)

\* the ids of all the records, whatever their page
IdsOfAllPages(fns, page) == [k \in 1..Len(fns) |-> fns[k].fnID]

\* lines 1521-1524
RECURSIVE IdsOnPage(_, _)
IdsOnPage(fns, page) ==
  IF fns = <<>> THEN <<>>
  ELSE (IF Head(fns).scanPageNum = page THEN <<Head(fns).fnID>> ELSE <<>>)
       \o IdsOnPage(Tail(fns), page)

InSeq(x, s) == \E k \in 1..Len(s) : s[k] = x

----------------------------------------------------------------------------
(* generatePpgenFootnoteMarkup, with lzdestt = lzdesth = "" and
   useAutoNumbering = False *)

fmText == <<".fm">>

FnClose == <<".fn", "-">>

\* ".fn {}  // {}".format(n, page)
FnOpenPage(n, page) == <<".fn", " ">> \o Fmt(n) \o <<" ", " ", "//", " ", page>>

\* ".fn {}".format(n)
FnOpen(n) == <<".fn", " ">> \o Fmt(n)

BookendHeader ==
  << <<".sp", " ", "4">>,
     <<".pb">>,
     <<".de", " ", "div.footnotes { border: dashed 1px #aaaaaa; padding: 1.5em; }">>,
     <<".de", " ", "div.footnotes h2 { margin-top: 1em; }">>,
     <<".dv", " ", "class=\"footnotes\"">>,
     <<".sp", " ", "2">>,
     <<".h2", " ", "id=footnotes nobreak">>,
     <<"FOOTNOTES:">>,
     <<".sp", " ", "2">> >>

\* lines 1654-1658, records k..len
RECURSIVE BookendBlocks(_, _)
BookendBlocks(fns, k) ==
  IF k > Len(fns) THEN <<>>
  ELSE <<FnOpenPage(k, fns[k].scanPageNum)>> \o fns[k].fnText \o <<FnClose>>
       \o BookendBlocks(fns, k + 1)

EmitBookend(outBuf, fns) ==
  outBuf \o BookendHeader \o BookendBlocks(fns, 1) \o << <<".dv", "-">> >>

\* the reversed loops of lines 1666-1686 and 1693-1708, at record k (1-based)
\* with the current insertion point cur; ends(k) is the record's chapterEnd
\* or paragraphEnd and open(k) its opening line
RECURSIVE EmitGroups(_, _, _, _, _)
EmitGroups(outBuf, fns, k, cur, withPage) ==
  IF k = 0 THEN ListInsert(outBuf, cur, fmText)
  ELSE LET fn == fns[k]
           fnEnd == IF withPage THEN fn.chapterEnd ELSE fn.paragraphEnd
           b1 == IF cur # fnEnd THEN ListInsert(outBuf, cur, fmText) ELSE outBuf
           open == IF withPage THEN FnOpenPage(k, fn.scanPageNum) ELSE FnOpen(k)
           fnMarkup == <<open>> \o fn.fnText \o <<FnClose>>
       IN EmitGroups(SliceAssign(b1, fnEnd, fnEnd, fnMarkup), fns, k - 1, fnEnd,
                     withPage)

\* list.insert(None, x) raises TypeError; a record whose paragraphEnd is None
\* makes the loop reach it, at the latest at line 1710
EmitParagraphend(outBuf, fns) ==
  IF \E k \in 1..Len(fns) : fns[k].paragraphEnd = None
  THEN [crashed |-> TRUE, out |-> outBuf]
  ELSE [crashed |-> FALSE,
        out |-> EmitGroups(outBuf, fns, Len(fns), Last(fns).paragraphEnd, FALSE)]

EmitChapterend(outBuf, fns) ==
  EmitGroups(outBuf, fns, Len(fns), Last(fns).chapterEnd, TRUE)

\* lines 1716-1731 at record k
RECURSIVE InplaceFrom(_, _, _, _, _)
InplaceFrom(outBuf, fns, k, curScanPage, lastStartLine) ==
  IF k = 0 THEN ListInsert(outBuf, lastStartLine, fmText)
  ELSE LET fn == fns[k]
           b1 == IF curScanPage # fn.scanPageNum
                 THEN ListInsert(outBuf, lastStartLine, fmText)
                 ELSE outBuf
           fnMarkup == <<FnOpen(k)>> \o fn.fnText \o <<FnClose>>
       IN InplaceFrom(SliceAssign(b1, fn.startLine, fn.endLine + 1, fnMarkup),
                      fns, k - 1, fn.scanPageNum, fn.startLine)

EmitInplace(outBuf, fns) ==
  LET r == stripFootnoteMarkup(
             InplaceFrom(outBuf, fns, Len(fns), Last(fns).scanPageNum,
                         Last(fns).startLine))
  IN [hung |-> r.hung, out |-> r.out]

Destinations == {"bookend", "chapterend", "paragraphend", "inplace"}

\* the result of generatePpgenFootnoteMarkup: how it ends, the buffer, what
\* it logs
generatePpgenFootnoteMarkup(outBuf, fns, footnoteDestination) ==
  LET ok(b) == [end |-> "done", out |-> b, errs |-> <<>>]
  IN CASE footnoteDestination = "bookend" -> ok(EmitBookend(outBuf, fns))
       [] footnoteDestination = "chapterend" -> ok(EmitChapterend(outBuf, fns))
       [] footnoteDestination = "paragraphend" ->
            LET r == EmitParagraphend(outBuf, fns)
            IN IF r.crashed THEN [end |-> "crashed", out |-> outBuf, errs |-> <<>>]
               ELSE ok(r.out)
       [] footnoteDestination = "inplace" ->
            LET r == EmitInplace(outBuf, fns)
            IN IF r.hung THEN [end |-> "hung", out |-> outBuf, errs |-> <<>>]
               ELSE ok(r.out)
       [] OTHER -> [end |-> "done", out |-> outBuf,
                    errs |-> <<"ERROR: Unrecognized value for --fndest">>]

----------------------------------------------------------------------------
(* processFootnotes, lines 1588-1599 *)

\* stands for the IndexError of outBuf[-1] on an empty list
IndexError == << <<"<IndexError>">> >>

\* while isLineBlank(outBuf[-1]): del outBuf[-1]
RECURSIVE PopBlankLines(_)
PopBlankLines(outBuf) ==
  IF outBuf = <<>> THEN IndexError
  ELSE IF isLineBlank(Last(outBuf)) THEN PopBlankLines(Front(outBuf))
       ELSE outBuf

RECURSIVE RemoveBlanksFrom(_, _, _)
RemoveBlanksFrom(b, n, outBuf) ==
  IF n >= Len(b) THEN [crashed |-> FALSE, out |-> outBuf]
  ELSE IF OpensFootnote(At(b, n))
       THEN LET popped == PopBlankLines(outBuf)
            IN IF popped = IndexError THEN [crashed |-> TRUE, out |-> outBuf]
               ELSE RemoveBlanksFrom(b, n + 1, Append(popped, At(b, n)))
       ELSE RemoveBlanksFrom(b, n + 1, Append(outBuf, At(b, n)))

RemoveBlankLinesBeforeFootnotes(b) == RemoveBlanksFrom(b, 0, <<>>)

----------------------------------------------------------------------------
(* The state machine *)

Stop(where) == /\ pc' = where
               /\ UNCHANGED <<mainVars, buf, dest, footnotes, joinI, joinCount, lineNum,
                              pending, currentScanPage, fnIDs, anchorsThisPage,
                              fnUniqueAnchorCount, log, anchorLog, doc, parseBuf>>

\* processFootnotes, lines 1588-1599
RemoveBlankLines ==
  /\ pc = "start"
  /\ LET r == RemoveBlankLinesBeforeFootnotes(doc)
     IN IF r.crashed THEN Stop("crashed")
        ELSE /\ pc' = "parse"
             /\ buf' = r.out
             /\ parseBuf' = r.out
             /\ UNCHANGED <<mainVars, dest, footnotes, joinI, joinCount, lineNum,
                            pending, currentScanPage, fnIDs, anchorsThisPage,
                            fnUniqueAnchorCount, log, anchorLog, doc>>

\* parseFootnotes, lines 1356-1432
ParseFootnotes ==
  /\ pc = "parse"
  /\ LET r == ParseScan(buf)
     IN IF r.crashed THEN Stop("crashed")
        ELSE /\ pc' = "join"
             /\ footnotes' = r.footnotes
             /\ joinI' = Len(r.footnotes) - 1
             /\ joinCount' = 0
             /\ UNCHANGED <<mainVars, buf, dest, lineNum, pending, currentScanPage,
                            fnIDs, anchorsThisPage, fnUniqueAnchorCount, log,
                            anchorLog, doc, parseBuf>>

\* parseFootnotes, one iteration of the loop of lines 1433-1491
JoinStep ==
  /\ pc = "join"
  /\ joinI > 0
  /\ LET r == JoinIteration(footnotes, joinI)
     IN IF r.crashed THEN Stop("crashed")
        ELSE /\ footnotes' = r.footnotes
             /\ log' = log \o r.errs
             /\ joinCount' = IF r.joined THEN joinCount + 1 ELSE joinCount
             /\ joinI' = joinI - 1
             /\ UNCHANGED <<mainVars, pc, buf, dest, lineNum, pending, currentScanPage,
                            fnIDs, anchorsThisPage, fnUniqueAnchorCount,
                            anchorLog, doc, parseBuf>>

\* parseFootnotes returns; processFootnotes, lines 1604-1606, and the
\* initialisation of processFootnoteAnchors, lines 1502-1510
StripMarkup ==
  /\ pc = "join"
  /\ joinI <= 0
  /\ LET r == IF dest # "inplace" THEN stripFootnoteMarkup(buf)
              ELSE [hung |-> FALSE, out |-> buf]
     IN IF r.hung THEN Stop("hung")
        ELSE /\ pc' = "anchorLine"
             /\ buf' = r.out
             /\ lineNum' = 0
             /\ fnUniqueAnchorCount' = 0
             /\ currentScanPage' = NoPage
             /\ fnIDs' = <<>>
             /\ anchorsThisPage' = <<>>
             /\ pending' = <<>>
             /\ UNCHANGED <<mainVars, dest, footnotes, joinI, joinCount, log, anchorLog,
                            doc, parseBuf>>

\* processFootnoteAnchors, lines 1513-1532: the page break bookkeeping of one
\* line and the anchors found on it; a line without anchors is passed (1576)
AnchorLine ==
  /\ pc = "anchorLine"
  /\ lineNum < Len(buf)
  /\ LET line == At(buf, lineNum)
         brk == isLinePageBreak(line)
         m == FindAnchors(line)
     IN /\ currentScanPage' = IF brk THEN parseScanPage(line) ELSE currentScanPage
        /\ anchorsThisPage' = IF brk THEN <<>> ELSE anchorsThisPage
        /\ fnIDs' = IF brk THEN IdsOnPage(footnotes, parseScanPage(line)) ELSE fnIDs
        /\ pending' = m
        /\ IF m = <<>>
           THEN pc' = pc /\ lineNum' = lineNum + 1
           ELSE pc' = "anchorMatch" /\ lineNum' = lineNum
  /\ UNCHANGED <<mainVars, buf, dest, footnotes, joinI, joinCount, fnUniqueAnchorCount,
                 log, anchorLog, doc, parseBuf>>

\* lines 1566-1574 for the record at index k (0-based) and the anchor's line
WithEnds(fns, k, outBuf, n) ==
  LET paragraphEnd == findNextEmptyLine(outBuf, n)
      chapter == findNextChapter(outBuf, n)
      prev == IF Falsy(chapter) THEN None
              ELSE findPreviousLineOfText(outBuf, chapter)
      f1 == [fns EXCEPT ![k + 1].paragraphEnd = paragraphEnd]
  IN IF Falsy(chapter) THEN [end |-> "ok", footnotes |-> f1]
     ELSE IF prev = Crash THEN [end |-> "crashed", footnotes |-> f1]
     ELSE IF prev = Hang THEN [end |-> "hung", footnotes |-> f1]
     ELSE [end |-> "ok",
           footnotes |-> [f1 EXCEPT ![k + 1].chapterEnd = prev + 1]]

\* the position among the anchors of its line of the anchor at the head of
\* the pending list p (1 for the leftmost)
AnchorOrdinal(line, p) == Len(FindAnchors(line)) - Len(p) + 1

\* what the messages of lines 1536 and 1553 say about one anchor: where it
\* is, its id, the page, and the number it is rewritten to (0 when it has no
\* footnote on the page)
AnchorEvent(n, ord, id, page, num, isNew) ==
  [line |-> n, ord |-> ord, id |-> id, page |-> page, num |-> num, new |-> isNew]

\* processFootnoteAnchors, one iteration of the for loop of lines 1533-1574
AnchorMatch ==
  /\ pc = "anchorMatch"
  /\ pending # <<>>
  /\ LET anchor == Head(pending)
         ord == AnchorOrdinal(At(buf, lineNum), pending)
         isNew == ~InSeq(anchor, anchorsThisPage)
         count == IF isNew THEN fnUniqueAnchorCount + 1 ELSE fnUniqueAnchorCount
         line2 == SubAnchor(At(buf, lineNum), anchor, Fmt(count))
         buf2 == [buf EXCEPT ![lineNum + 1] = line2]
         ends == WithEnds(footnotes, count - 1, buf2, lineNum)
         next == /\ pending' = Tail(pending)
                 /\ IF Tail(pending) = <<>>
                    THEN pc' = "anchorLine" /\ lineNum' = lineNum + 1
                    ELSE pc' = pc /\ lineNum' = lineNum
     IN IF ~InSeq(anchor, fnIDs)
        THEN /\ log' = Append(log, "ERROR: No matching footnote for anchor")
             /\ anchorLog' = Append(anchorLog,
                  AnchorEvent(lineNum, ord, anchor, currentScanPage, 0, FALSE))
             /\ next
             /\ UNCHANGED <<mainVars, buf, dest, footnotes, joinI, joinCount,
                            currentScanPage, fnIDs, anchorsThisPage,
                            fnUniqueAnchorCount, doc, parseBuf>>
        ELSE IF count > Len(footnotes) THEN Stop("crashed")
        ELSE IF currentScanPage # At(footnotes, count - 1).scanPageNum
             THEN /\ pc' = "fatal"
                  /\ log' = Append(log, "CRITICAL: Anchor found on different scan page")
                  /\ fnUniqueAnchorCount' = count
                  /\ anchorsThisPage' = IF isNew THEN Append(anchorsThisPage, anchor)
                                        ELSE anchorsThisPage
                  /\ UNCHANGED <<mainVars, buf, dest, footnotes, joinI, joinCount, lineNum,
                                 pending, currentScanPage, fnIDs, anchorLog, doc,
                                 parseBuf>>
        ELSE IF ends.end # "ok" THEN Stop(ends.end)
        ELSE /\ next
             /\ fnUniqueAnchorCount' = count
             /\ anchorsThisPage' = IF isNew THEN Append(anchorsThisPage, anchor)
                                   ELSE anchorsThisPage
             /\ buf' = buf2
             /\ footnotes' = ends.footnotes
             /\ anchorLog' = Append(anchorLog,
                  AnchorEvent(lineNum, ord, anchor, currentScanPage, count, isNew))
             /\ UNCHANGED <<mainVars, dest, joinI, joinCount, currentScanPage, fnIDs, log,
                            doc, parseBuf>>

\* processFootnoteAnchors returns; processFootnotes, lines 1611-1621
EmitMarkup ==
  /\ pc = "anchorLine"
  /\ lineNum >= Len(buf)
  /\ LET e1 == IF Len(footnotes) # fnUniqueAnchorCount
               THEN <<"ERROR: Footnote anchor count does not match footnote count">>
               ELSE <<>>
         r == IF Len(footnotes) > 0
              THEN generatePpgenFootnoteMarkup(buf, footnotes, dest)
              ELSE [end |-> "done", out |-> buf, errs |-> <<>>]
     IN /\ pc' = r.end
        /\ buf' = r.out
        /\ log' = log \o e1 \o r.errs
  /\ UNCHANGED <<mainVars, dest, footnotes, joinI, joinCount, lineNum, pending,
                 currentScanPage, fnIDs, anchorsThisPage, fnUniqueAnchorCount,
                 anchorLog, doc, parseBuf>>

Next ==
  \/ RemoveBlankLines
  \/ ParseFootnotes
  \/ JoinStep
  \/ StripMarkup
  \/ AnchorLine
  \/ AnchorMatch
  \/ EmitMarkup

----------------------------------------------------------------------------
(* main with the options --footnotes --fndest <dest> [--force] [--dryrun] *)

\* line.rstrip(" \t") of every line
RECURSIVE RStrip(_)
RStrip(line) ==
  IF line # <<>> /\ Last(line) = " " THEN RStrip(Front(line)) ELSE line

removeTrailingSpaces(b) == [n \in 1..Len(b) |-> RStrip(b[n])]

\* re.sub(r"^<tb>$", ".tb", line) of every line
convertThoughtBreaks(b) ==
  [n \in 1..Len(b) |-> IF b[n] = <<"<tb>">> THEN <<".tb">> ELSE b[n]]

doStandardConversions(b) == convertThoughtBreaks(removeTrailingSpaces(b))

\* lines 85-95, 107-115, 143-151: a closing markup against formattingStack;
\* st is [stack, errorCount, log]
CloseMarkup(st, open) ==
  IF st.stack = <<>> \/ Last(st.stack) # open
  THEN [st EXCEPT !.errorCount = @ + 1, !.log = @ \o <<"ERROR: Unexpected">>]
  ELSE [st EXCEPT !.stack = Front(@)]

\* the loop of lines 104-155 over re.findall(r"(\[|\]|<\/?\w+>)", line), from
\* token k on; "[Footnote" holds one "["
RECURSIVE ValidateTokens(_, _, _)
ValidateTokens(line, k, st) ==
  IF k > Len(line) THEN st
  ELSE LET v == IF line[k] = "[Footnote" THEN "[" ELSE line[k]
       IN ValidateTokens(line, k + 1,
            IF v = "<tb>" THEN st
            ELSE IF v = "]" THEN CloseMarkup(st, "[")
            ELSE IF v = "</i>" THEN CloseMarkup(st, "<i>")
            ELSE IF v \in {"[", "<i>"} THEN [st EXCEPT !.stack = Append(@, v)]
            ELSE st)

\* lines 162-166: a [Footnote] of one line with text after its closing "]"
ExtraAfterClose(line) ==
  /\ OpensFootnote(line)
  /\ \E k \in 1..Len(line) : line[k] = "]"
  /\ BracketDelta(line) = 0
  /\ ~ \/ Last(line) = "]"
       \/ Len(line) >= 2 /\ line[Len(line) - 1] = "]" /\ Last(line) = "*"

\* one iteration of the loop of lines 78-174
ValidateLine(line, st) ==
  LET s1 == IF line # <<>> /\ line[1] \in {"/*", "/#"}
            THEN [st EXCEPT !.stack = Append(@, line[1])]
            ELSE IF line # <<>> /\ line[1] \in {"*/", "#/"}
                 THEN CloseMarkup(st, IF line[1] = "*/" THEN "/*" ELSE "/#")
                 ELSE st
      s2 == ValidateTokens(line, 1, s1)
  IN IF ExtraAfterClose(line)
     THEN [s2 EXCEPT !.errorCount = @ + 1,
                     !.log = @ \o <<"ERROR: Extra characters found after closing ']' in [Footnote]">>]
     ELSE s2

RECURSIVE ValidateFrom(_, _, _)
ValidateFrom(b, n, st) ==
  IF n > Len(b) THEN st ELSE ValidateFrom(b, n + 1, ValidateLine(b[n], st))

\* validateDpMarkup: the count it returns and the errors it logs
validateDpMarkup(b) ==
  LET st == ValidateFrom(removeTrailingSpaces(b), 1,
                         [stack |-> <<>>, errorCount |-> 0, log |-> <<>>])
  IN IF st.stack # <<>>
     THEN [errorCount |-> st.errorCount + 1,
           log |-> st.log
                   \o <<"ERROR: Reached end of file with unresolved formatting markup">>
                   \o (IF st.errorCount = 0
                       THEN <<"ERROR: Unresolved markup:", "ERROR: Line">>
                       ELSE <<>>)]
     ELSE [errorCount |-> st.errorCount, log |-> st.log]

\* main, line 2492
Validate ==
  /\ pc = "main"
  /\ pc' = "gate"
  /\ errorCount' = validateDpMarkup(infile).errorCount
  /\ log' = log \o validateDpMarkup(infile).log
  /\ UNCHANGED <<buf, dest, footnotes, joinI, joinCount, lineNum, pending,
                 currentScanPage, fnIDs, anchorsThisPage, fnUniqueAnchorCount,
                 anchorLog, doc, parseBuf, args, infile, outfile, runs>>

\* a gate that lets every run through
GateNever(count, force) == FALSE

\* the condition of line 2493
GateHalts(count, force) == count > 0 /\ ~force

\* main, lines 2493-2497 and 2538: fatal(), or the standard conversions and
\* the call of processFootnotes
ValidationGate ==
  /\ pc = "gate"
  /\ IF GateHalts(errorCount, args.force)
     THEN /\ pc' = "fatal"
          /\ log' = log \o <<"CRITICAL: Correct markup issues then re-run operation, or use --force to ignore markup errors">>
          /\ doc' = doc
     ELSE /\ pc' = "start"
          /\ doc' = doStandardConversions(infile)
          /\ log' = log
  /\ UNCHANGED <<buf, dest, footnotes, joinI, joinCount, lineNum, pending,
                 currentScanPage, fnIDs, anchorsThisPage, fnUniqueAnchorCount,
                 anchorLog, parseBuf, args, infile, errorCount, outfile, runs>>

\* main, lines 2545-2551: processFootnotes has returned
SaveOutput ==
  /\ pc = "done"
  /\ pc' = "exit"
  /\ outfile' = IF args.dryrun THEN outfile ELSE buf
  /\ UNCHANGED <<buf, dest, footnotes, joinI, joinCount, lineNum, pending,
                 currentScanPage, fnIDs, anchorsThisPage, fnUniqueAnchorCount,
                 log, anchorLog, doc, parseBuf, args, infile, errorCount, runs>>

NextMain ==
  \/ Validate
  \/ ValidationGate
  \/ Next
  \/ SaveOutput

----------------------------------------------------------------------------
(* Input documents *)

PageBreak(p) == <<"//", " ", PageIds[p]>>

Blank == <<>>

\* "word[a]"
Ref(a) == <<"word", "[", a, "]">>

\* "word[a] text[b]"
Ref2(a, b) == <<"word", "[", a, "]", " ", "text", "[", b, "]">>

\* "[Footnote a: note]"
Fn(a) == <<"[Footnote", " ", a, ":", " ", "note", "]">>

\* "[Footnote a: note", the first line of a block of several lines
FnStart(a) == <<"[Footnote", " ", a, ":", " ", "note">>

\* "text]", the last line of a block of several lines
FnEnd == <<"text", "]">>

\* "[Footnote a: note]*", a block that continues on the next page
FnSplit(a) == <<"[Footnote", " ", a, ":", " ", "note", "]", "*">>

\* "*[Footnote: text]", the continuation of a block of the previous page
FnFrag == <<"*", "[Footnote", ":", " ", "text", "]">>

\* "[Footnote a: word-*]*"
FnSplitHyphen(a) == <<"[Footnote", " ", a, ":", " ", "word", "-", "*", "]", "*">>

\* "*[Footnote: *inued rest of text]"
FnFragHyphen ==
  <<"*", "[Footnote", ":", " ", "*", "inued", " ", "rest", " ", "of", " ", "text", "]">>

\* all sequences over S of length 0..n
SeqsUpTo(S, n) == UNION {[1..k -> S] : k \in 0..n}

\* no file has been written
NoFile == << <<"<no file>">> >>

\* processFootnotes called on its own: main has not run
InitWith(docs, dests) ==
  /\ doc \in docs
  /\ dest \in dests
  /\ pc = "start"
  /\ args = [force |-> FALSE, dryrun |-> FALSE]
  /\ infile = <<>>
  /\ errorCount = 0
  /\ outfile = NoFile
  /\ runs = 0
  /\ buf = <<>>
  /\ parseBuf = <<>>
  /\ footnotes = <<>>
  /\ joinI = 0
  /\ joinCount = 0
  /\ lineNum = 0
  /\ pending = <<>>
  /\ currentScanPage = NoPage
  /\ fnIDs = <<>>
  /\ anchorsThisPage = <<>>
  /\ fnUniqueAnchorCount = 0
  /\ log = <<>>
  /\ anchorLog = <<>>

\* Documents of one page and every destination, "other" being an
\* unsupported one
MaxBody == 4

BodyLines == {Blank, Ref("A"), Ref("B"), Fn("A"), FnStart("B"), FnEnd}

Docs == {<<PageBreak(1)>> \o b : b \in SeqsUpTo(BodyLines, MaxBody)}

Init == InitWith(Docs, Destinations \cup {"other"})

Spec == Init /\ [][Next]_vars

\* Documents for the anchor resolver: one page break, a body, and the empty
\* last line of a file that ends with a newline (loadFile splits at "\n")
MaxAnchorBody == 4

AnchorLines == {PageBreak(2), Ref("1"), Ref("2"), Ref2("2", "1"), Fn("1"), Fn("2")}

AnchorDocs ==
  {<<PageBreak(1)>> \o b \o <<Blank>> : b \in SeqsUpTo(AnchorLines, MaxAnchorBody)}

InitAnchors == InitWith(AnchorDocs, {"bookend", "inplace"})

SpecAnchors == InitAnchors /\ [][Next]_vars

\* Documents for the joiner: two pages, each with up to MaxPageLines lines
MaxPageLines == 2

JoinLines == {Fn("2"), FnSplit("1"), FnFrag, FnSplitHyphen("1"), FnFragHyphen, Ref("2")}

JoinDocs ==
  {<<PageBreak(1)>> \o a \o <<PageBreak(2)>> \o b \o <<Blank>> :
     a \in SeqsUpTo(JoinLines, MaxPageLines), b \in SeqsUpTo(JoinLines, MaxPageLines)}

InitJoin == InitWith(JoinDocs, {"bookend"})

SpecJoin == InitJoin /\ [][Next]_vars

\* "[Footnote: text]", a block without a label
FnBare == <<"[Footnote", ":", " ", "text", "]">>

\* "*[Footnote 1: text]", a continuation that repeats the label
FnStarLabel == <<"*", "[Footnote", " ", "1", ":", " ", "text", "]">>

\* "rest [text] of", a line inside a block with a bracketed note
Inner == <<"rest", " ", "[", "text", "]", " ", "of">>

\* documents for the label forms of the parser
MaxParseBody == 3

ParseLines == {Ref("1"), Fn("1"), Fn("A"), FnBare, FnFrag, FnStarLabel,
               FnStart("2"), Inner, FnEnd}

ParseDocs ==
  {<<PageBreak(1)>> \o b \o <<Blank>> : b \in SeqsUpTo(ParseLines, MaxParseBody)}

InitParse == InitWith(ParseDocs, {"bookend"})

SpecParse == InitParse /\ [][Next]_vars

\* documents whose blocks can hold a page break between their first and
\* their last line
MaxPagesBody == 4

PagesDocs ==
  {<<PageBreak(1)>> \o b \o <<Blank>> :
     b \in SeqsUpTo({FnStart("A"), FnEnd, Fn("B"), Ref("B"), PageBreak(2)},
                    MaxPagesBody)}

InitPages == InitWith(PagesDocs, {"bookend"})

SpecPages == InitPages /\ [][Next]_vars

\* "[Footnote A: note].", text after the closing bracket
FnDot == <<"[Footnote", " ", "A", ":", " ", "note", "]", ".">>

\* input files of main: one page, with and without markup errors
MaxMainBody == 3

MainLines ==
  {Ref("A"), Fn("A"), FnDot, <<"/*">>, <<"*/">>, <<"word", "</i>">>, <<"<tb>">>}

MainDocs ==
  {<<PageBreak(1)>> \o b \o <<Blank>> : b \in SeqsUpTo(MainLines, MaxMainBody)}

\* main after loadFile and the parsing of the options
InitMain ==
  /\ infile \in MainDocs
  /\ args \in [force : BOOLEAN, dryrun : BOOLEAN]
  /\ dest = "bookend"
  /\ pc = "main"
  /\ doc = <<>>
  /\ errorCount = 0
  /\ outfile = NoFile
  /\ runs = 0
  /\ buf = <<>>
  /\ parseBuf = <<>>
  /\ footnotes = <<>>
  /\ joinI = 0
  /\ joinCount = 0
  /\ lineNum = 0
  /\ pending = <<>>
  /\ currentScanPage = NoPage
  /\ fnIDs = <<>>
  /\ anchorsThisPage = <<>>
  /\ fnUniqueAnchorCount = 0
  /\ log = <<>>
  /\ anchorLog = <<>>

SpecMain == InitMain /\ [][NextMain]_vars

\* how often the output of processFootnotes is fed in again
MaxRuns == 1

\* documents for destination inplace: blocks, blocks that continue on the
\* next page and their continuations, on one or two pages
MaxInplaceBody == 4

InplaceDocs ==
  {<<PageBreak(1)>> \o b :
     b \in SeqsUpTo({Ref("1"), Fn("1"), FnSplit("1"), FnFrag, PageBreak(2), Blank},
                    MaxInplaceBody)}

InitInplace == InitWith(InplaceDocs, {"inplace"})

SpecInplace == InitInplace /\ [][Next]_vars

\* processFootnotes is called again on the buffer it returned
Rerun ==
  /\ pc = "done"
  /\ runs < MaxRuns
  /\ runs' = runs + 1
  /\ doc' = buf
  /\ pc' = "start"
  /\ buf' = <<>>
  /\ parseBuf' = <<>>
  /\ footnotes' = <<>>
  /\ joinI' = 0
  /\ joinCount' = 0
  /\ lineNum' = 0
  /\ pending' = <<>>
  /\ currentScanPage' = NoPage
  /\ fnIDs' = <<>>
  /\ anchorsThisPage' = <<>>
  /\ fnUniqueAnchorCount' = 0
  /\ log' = <<>>
  /\ anchorLog' = <<>>
  /\ UNCHANGED <<dest, args, infile, errorCount, outfile>>

NextRerun ==
  \/ Next
  \/ Rerun

SpecRerun == InitInplace /\ [][NextRerun]_vars

\* ".h2 word", a chapter heading in ppgen format
H2 == <<".h2", " ", "word">>

\* documents of two chapters, the first on page 1 and the second, after the
\* heading, on page 2; a third heading may follow
MaxChapterLines == 3

MaxLastChapterLines == 2

ChapterDocs ==
  {<<PageBreak(1)>> \o c1 \o <<H2, PageBreak(2)>> \o c2 \o t :
     c1 \in SeqsUpTo({Ref("A"), Ref2("A", "B"), Fn("A"), Fn("B")}, MaxChapterLines),
     c2 \in SeqsUpTo({Ref("A"), Fn("A")}, MaxLastChapterLines),
     t \in {<<Blank>>, <<H2, <<"word">>, Blank>>}}

InitChapters == InitWith(ChapterDocs, {"chapterend"})

SpecChapters == InitChapters /\ [][Next]_vars

\* ".h2 word[A]", a chapter heading that carries an anchor
H2Ref == <<".h2", " ", "word", "[", "A", "]">>

\* documents of one page with headings, with and without original text
\* before them
MaxSearchBody == 4

SearchDocs ==
  {<<PageBreak(1)>> \o b \o <<Blank>> :
     b \in SeqsUpTo({H2Ref, H2, Ref("A"), Fn("A"), Blank}, MaxSearchBody)}

InitSearch == InitWith(SearchDocs, {"chapterend"})

SpecSearch == InitSearch /\ [][Next]_vars

\* documents of one page in two parts, each with anchors and blocks of its
\* own, separated by blank lines and a chapter heading or by nothing
MaxEmitPart == 2

EmitSeps == {<<>>, <<Blank>>, <<H2>>, <<Blank, H2>>, <<Blank, H2, Blank>>}

EmitDocs ==
  {<<PageBreak(1)>> \o p1 \o sep \o p2 \o <<Blank>> :
     p1 \in SeqsUpTo({Ref("A"), Fn("A")}, MaxEmitPart),
     sep \in EmitSeps,
     p2 \in SeqsUpTo({Ref("B"), Fn("B")}, MaxEmitPart)}

InitEmit == InitWith(EmitDocs, {"bookend", "chapterend", "paragraphend"})

SpecEmit == InitEmit /\ [][Next]_vars

\* "[Footnote A: Some note.]"
ExampleFn == <<"[Footnote", " ", "A", ":", " ", "Some", " ", "note", ".", "]">>

\* "Reference[A] in text."
ExampleRef == <<"Reference", "[", "A", "]", " ", "in", " ", "text", ".">>

\* documents made of the lines of the worked example ("// 010.png" is
\* PageBreak(4)) and blank lines, in any order
MaxExampleLines == 4

ExampleDocs == SeqsUpTo({ExampleFn, ExampleRef, PageBreak(4), Blank}, MaxExampleLines)

InitExample == InitWith(ExampleDocs, {"bookend"})

SpecExample == InitExample /\ [][Next]_vars

----------------------------------------------------------------------------
(* What the claims speak about *)

Terminal == pc \in {"done", "crashed", "fatal", "hung"}

\* the anchor resolver is running or has just returned
InResolver == pc \in {"anchorLine", "anchorMatch"}

\* the scan page of line n (1-based) of document d: the identifier of the
\* most recent page break at or before it
RECURSIVE PageAt(_, _)
PageAt(d, n) ==
  IF n = 0 THEN NoPage
  ELSE IF isLinePageBreak(d[n]) THEN parseScanPage(d[n]) ELSE PageAt(d, n - 1)

\* the brackets the line opens less those it closes
Depth(line) ==
  Cardinality({k \in 1..Len(line) : line[k] \in {"[", "[Footnote"}})
    - Cardinality({k \in 1..Len(line) : line[k] = "]"})

\* the line ends with "]" and nothing but asterisks after it
EndsClosed(line) ==
  \E j \in 1..Len(line) :
    line[j] = "]" /\ \A i \in (j + 1)..Len(line) : line[i] = "*"

\* the line (1-based) on which the block opened at line n of d closes: the
\* first one where the brackets opened since n are all closed and that ends
\* with "]" or "]*"; 0 if there is none
RECURSIVE ClosingLine(_, _, _)
ClosingLine(d, n, level) ==
  IF n > Len(d) THEN 0
  ELSE LET l == level + Depth(d[n])
       IN IF l = 0 /\ EndsClosed(d[n]) THEN n
          ELSE ClosingLine(d, n + 1, l)

\* the footnote blocks of d from line n on, each as [first, last]; a block
\* that never closes is [first, 0] and ends the list
RECURSIVE SourceBlocks(_, _)
SourceBlocks(d, n) ==
  IF n > Len(d) THEN <<>>
  ELSE IF OpensFootnote(d[n])
       THEN LET e == ClosingLine(d, n, 0)
            IN IF e = 0 THEN <<[first |-> n, last |-> 0]>>
               ELSE <<[first |-> n, last |-> e]>> \o SourceBlocks(d, e + 1)
       ELSE SourceBlocks(d, n + 1)

InBlock(d, n) ==
  \E k \in 1..Len(SourceBlocks(d, 1)) :
    SourceBlocks(d, 1)[k].first <= n /\ n <= SourceBlocks(d, 1)[k].last

\* [page, id] of every block of d, in document order
BlockKeys(d) ==
  LET bs == SourceBlocks(d, 1)
  IN [k \in 1..Len(bs) |-> <<PageAt(d, bs[k].first), <<d[bs[k].first][3]>> >>]

\* [page, id] of every anchor of d outside the blocks, in document order
RECURSIVE AnchorKeys(_, _)
AnchorKeys(d, n) ==
  IF n > Len(d) THEN <<>>
  ELSE (IF InBlock(d, n) THEN <<>>
        ELSE LET m == FindAnchors(d[n])
             IN [k \in 1..Len(m) |-> <<PageAt(d, n), m[k]>>])
       \o AnchorKeys(d, n + 1)

Occurrences(s, x) == Cardinality({k \in 1..Len(s) : s[k] = x})

\* N well-formed, non-split blocks (a one-character label, closed, no
\* continuation asterisk, no block opening inside another, no two with the
\* same id on a page) and N anchors that match them one to one by page and id
WellFormedInput(d) ==
  LET bs == SourceBlocks(d, 1)
      bk == BlockKeys(d)
      ak == AnchorKeys(d, 1)
  IN /\ \A n \in 1..Len(d) :
          /\ ~StartsWith(d[n], <<"*", "[Footnote">>)
          /\ ~EndsWith(d[n], <<"]", "*">>)
     /\ \A k \in 1..Len(bs) :
          /\ bs[k].last # 0
          /\ Len(d[bs[k].first]) >= 4
          /\ d[bs[k].first][2] = " "
          /\ d[bs[k].first][3] \in Letters \cup Digits
          /\ d[bs[k].first][4] = ":"
          /\ \A n \in (bs[k].first + 1)..bs[k].last : ~OpensFootnote(d[n])
     /\ Len(ak) = Len(bk)
     /\ \A k \in 1..Len(bk) : Occurrences(bk, bk[k]) = 1 /\ Occurrences(ak, bk[k]) = 1

\* the lines of a source block without "[Footnote x:", the space after it,
\* and the closing "]"
SourceBody(d, blk) ==
  LET lines == SubSeq(d, blk.first, blk.last)
      l1 == [lines EXCEPT ![1] = IF Len(@) > 4 /\ @[5] = " " THEN Drop(@, 5)
                                 ELSE Drop(@, 4)]
  IN [l1 EXCEPT ![Len(l1)] = Front(@)]

IsFnOpen(line) ==
  /\ Len(line) >= 3
  /\ line[1] = ".fn"
  /\ line[2] = " "
  /\ line[3] \in Digits

\* the number of the directive line ".fn <number> ..."
FnNumber(line) == SubSeq(line, 3, 2 + DigitRun(line, 3))

\* the directive blocks of buffer b from line n on: number and body lines
RECURSIVE DirectiveEnd(_, _)
DirectiveEnd(b, n) ==
  IF n > Len(b) THEN n
  ELSE IF b[n] = FnClose THEN n ELSE DirectiveEnd(b, n + 1)

RECURSIVE Directives(_, _)
Directives(b, n) ==
  IF n > Len(b) THEN <<>>
  ELSE IF IsFnOpen(b[n])
       THEN LET e == DirectiveEnd(b, n + 1)
            IN <<[num |-> FnNumber(b[n]), body |-> SubSeq(b, n + 1, e - 1)]>>
               \o Directives(b, e + 1)
       ELSE Directives(b, n + 1)

ExpectedDirectives(d) ==
  LET bs == SourceBlocks(d, 1)
  IN [k \in 1..Len(bs) |-> [num |-> Fmt(k), body |-> SourceBody(d, bs[k])]]

\* C1: for every document with N well-formed, non-split footnote blocks and
\* N matching anchors, processFootnotes returns, and what it returns holds
\* exactly N directive blocks, numbered 1..N in document order, the body of
\* block k being the k-th source block without its label and closing bracket
C1_DirectiveBlocks ==
  (dest \in Destinations /\ WellFormedInput(doc) /\ Terminal)
    => (pc = "done" /\ Directives(buf, 1) = ExpectedDirectives(doc))

----------------------------------------------------------------------------
(* The anchor resolver *)

\* processFootnoteAnchors has returned and the emitter has not run yet
ResolverDone == pc = "anchorLine" /\ lineNum >= Len(buf)

NewEvents == SelectSeq(anchorLog, LAMBDA e : e.new)

\* the anchor that event e is about, as the buffer b shows it now
AnchorTextAt(b, e) == FindAnchors(At(b, e.line))[e.ord]

\* C2: after processFootnoteAnchors, the k-th newly resolved anchor (in
\* document order, each line left to right) reads [k] in the buffer, so the
\* anchors of distinct footnotes read 1, 2, 3, ... also when several of them
\* are on one line
C2_NewAnchorsReadInOrder ==
  ResolverDone =>
    \A k \in 1..Len(NewEvents) : AnchorTextAt(buf, NewEvents[k]) = Fmt(k)

\* the id the k-th record had in the source: the label of its first line
SourceId(fn) == FootnoteLabel(fn.fnBlock[1])

\* C3: whenever an anchor is rewritten to number k, the record emitted as
\* directive block k (the k-th record) is on the anchor's scan page and had,
\* in the source, the id of the anchor's original token
C3_PairedByIdAndPage ==
  (InResolver \/ pc = "done") =>
    \A j \in 1..Len(anchorLog) :
      anchorLog[j].num > 0 =>
        /\ footnotes[anchorLog[j].num].scanPageNum = anchorLog[j].page
        /\ SourceId(footnotes[anchorLog[j].num]) = anchorLog[j].id

\* the first anchor of the log with the id and the page of the j-th
FirstOccurrence(j) ==
  CHOOSE i \in 1..j :
    /\ anchorLog[i].id = anchorLog[j].id
    /\ anchorLog[i].page = anchorLog[j].page
    /\ \A h \in 1..(i - 1) : ~(/\ anchorLog[h].id = anchorLog[j].id
                               /\ anchorLog[h].page = anchorLog[j].page)

\* C6: an anchor whose id already occurred on its scan page is rewritten to
\* the number given to the first occurrence of that id on the page, and the
\* counter of resolved footnotes does not count it again
C6_DuplicateReusesFirstNumber ==
  (InResolver \/ pc = "done") =>
    /\ \A j \in 1..Len(anchorLog) :
         (anchorLog[j].num > 0 /\ FirstOccurrence(j) # j) =>
           anchorLog[j].num = anchorLog[FirstOccurrence(j)].num
    /\ fnUniqueAnchorCount =
         Cardinality({j \in 1..Len(anchorLog) :
                        anchorLog[j].num > 0 /\ FirstOccurrence(j) = j})

\* the lines of b that hold an anchor
AnchorBearing(b) == SelectSeq(b, LAMBDA line : FindAnchors(line) # <<>>)

\* how many lines up to the one of anchorLog[j] held an anchor
AnchorLineRank(j) ==
  Cardinality({anchorLog[i].line : i \in {h \in 1..Len(anchorLog) :
                                            anchorLog[h].line <= anchorLog[j].line}})

NoMatchError == "ERROR: No matching footnote for anchor"

\* the anchor the resolver is about to handle is the id of no record on the
\* current scan page
Mismatched ==
  /\ pc = "anchorMatch"
  /\ \A k \in 1..Len(footnotes) :
       footnotes[k].scanPageNum = currentScanPage => footnotes[k].fnID # Head(pending)

\* every anchor that had no footnote on its page reads in the buffer as it
\* did in the source, during the resolver's pass and in the final output
MismatchedTextKept ==
  (InResolver \/ pc = "done") =>
    \A j \in 1..Len(anchorLog) :
      anchorLog[j].num = 0 =>
        FindAnchors(AnchorBearing(buf)[AnchorLineRank(j)])[anchorLog[j].ord]
          = anchorLog[j].id

\* C7: an anchor whose id is the id of no footnote record on the current
\* scan page produces exactly one error, changes neither the buffer nor the
\* records nor the counter, and its bracketed text is the same in the output
C7_MismatchedAnchor ==
  /\ [][Mismatched =>
          /\ log' = Append(log, NoMatchError)
          /\ buf' = buf
          /\ footnotes' = footnotes
          /\ fnUniqueAnchorCount' = fnUniqueAnchorCount
          /\ pc' \in {"anchorLine", "anchorMatch"}]_vars
  /\ []MismatchedTextKept

\* witness of C7: the output holds a line with an anchor that had no footnote
\* on its page, next to one that was renumbered, and one error was reported
C7_Witness ==
  /\ pc = "done"
  /\ Occurrences(log, NoMatchError) = 1
  /\ \E i, j \in 1..Len(anchorLog) :
       /\ anchorLog[i].line = anchorLog[j].line
       /\ anchorLog[i].num = 0
       /\ anchorLog[j].num > 0
       /\ anchorLog[j].id # Fmt(anchorLog[j].num)

----------------------------------------------------------------------------
(* The joiner *)

\* the fragment the joiner looks at in this iteration
Fragment == At(footnotes, joinI)

Joining == pc = "join" /\ joinI > 0 /\ Fragment.joinToPrevious

\* page pb is the scan page that follows pa
Adjacent(pa, pb) ==
  \E k \in 1..(Len(PageIds) - 1) : PageIds[k] = pa /\ PageIds[k + 1] = pb

\* record p (1-based) is a block split at the end of the page before the
\* fragment's, and only ordinary blocks lie between the two
SplitPair(p) ==
  /\ Joining
  /\ p \in 1..joinI
  /\ footnotes[p].joinToNext
  /\ Adjacent(footnotes[p].scanPageNum, Fragment.scanPageNum)
  /\ \A q \in (p + 1)..joinI :
       ~footnotes[q].joinToNext /\ ~footnotes[q].joinToPrevious

\* C4: a block that ends with a continuation asterisk on page A and a
\* fragment that starts with one on the page after it are merged into one
\* record, whatever ordinary blocks lie between them on the two pages: the
\* list loses the fragment and the first record's fnBlock and fnText are
\* followed by the fragment's
C4_SplitFootnoteMerged ==
  [][\A p \in 1..Len(footnotes) :
       (SplitPair(p) /\ ~HyphenEnd(Last(footnotes[p].fnText))) =>
         footnotes' =
           DelAt([footnotes EXCEPT ![p].fnBlock = @ \o Fragment.fnBlock,
                                   ![p].fnText = @ \o Fragment.fnText,
                                   ![p].joinToNext = FALSE],
                 joinI)]_vars

RestOfText == <<"rest", " ", "of", " ", "text">>

\* the record before the fragment ends in "word-*", is on another page, and
\* the fragment's body starts "*inued rest of text"
HyphenPair ==
  /\ Joining
  /\ At(footnotes, joinI - 1).joinToNext
  /\ At(footnotes, joinI - 1).scanPageNum # Fragment.scanPageNum
  /\ EndsWith(Last(At(footnotes, joinI - 1).fnText), <<"word", "-", "*">>)
  /\ Fragment.fnText[1] = <<"*", "inued", " ">> \o RestOfText

\* C5 as the specification states it: the merged body ends with the single
\* line "wordinued rest of text", without "-", without "*", and without
\* "rest of text" on a line of its own
C5_SingleJoinedLine ==
  [][HyphenPair =>
       LET to == At(footnotes, joinI - 1)
           word == Take(Last(to.fnText), Len(Last(to.fnText)) - 2)
       IN footnotes'[joinI].fnText =
            Front(to.fnText) \o <<word \o <<"inued", " ">> \o RestOfText>>
              \o Tail(Fragment.fnText)]_vars

\* C5: the merged body has the line "word-**inued" (the first word of the
\* continuation, asterisk included, appended to the hyphenated line, whose
\* "-*" stays) followed by the line "rest of text"
C5_HyphenJoin ==
  [][HyphenPair =>
       LET to == At(footnotes, joinI - 1)
       IN /\ Len(footnotes') = Len(footnotes) - 1
          /\ footnotes'[joinI].fnText =
               Front(to.fnText) \o <<Last(to.fnText) \o <<"*", "inued">>>>
                 \o <<RestOfText>> \o Tail(Fragment.fnText)]_vars

\* witness of C5: a record merged from two whose body is "word-**inued" and
\* "rest of text"
C5_Witness ==
  /\ pc = "join"
  /\ joinCount > 0
  /\ \E k \in 1..Len(footnotes) :
       /\ Len(footnotes[k].fnBlock) = 2
       /\ footnotes[k].fnText = <<(<<"word", "-", "*", "*", "inued">>), RestOfText>>

\* C8: a fragment with no record marked joinToNext before it on the page
\* before its own makes the joiner report an error and leave the list of
\* records as it is
C8_JoinFailureMergesNothing ==
  [][(/\ Joining
      /\ ~\E p \in 1..joinI :
            /\ footnotes[p].joinToNext
            /\ Adjacent(footnotes[p].scanPageNum, Fragment.scanPageNum))
       => (/\ footnotes' = footnotes
           /\ Len(log') > Len(log))]_vars

\* C9: when the joiner removes a fragment from the list, the record that
\* gets its lines precedes it and is on another scan page
C9_NeverSamePage ==
  [][(Joining /\ Len(footnotes') < Len(footnotes)) =>
       \E p \in 1..joinI :
         /\ footnotes[p].scanPageNum # Fragment.scanPageNum
         /\ footnotes'[p].fnBlock = footnotes[p].fnBlock \o Fragment.fnBlock]_vars

----------------------------------------------------------------------------
(* The parser *)

\* the first line (1-based) of the block of d that never closes, 0 if every
\* block closes
Unterminated(d) ==
  LET bs == SourceBlocks(d, 1)
  IN IF bs # <<>> /\ Last(bs).last = 0 THEN Last(bs).first ELSE 0

\* C10: when a footnote block is opened and the buffer ends before its
\* closing pattern at nesting level zero, parseFootnotes ends with a fatal
\* error and gives no record for that block
C10_UnterminatedIsFatal ==
  [][(pc = "parse" /\ Unterminated(buf) # 0) =>
       (/\ pc' = "fatal"
        /\ \A k \in 1..Len(footnotes') :
             footnotes'[k].startLine # Unterminated(buf) - 1)]_vars

\* the number of tokens of the opening label of the line: an optional "*",
\* "[Footnote", then ":" or a space, a letter or digits, and ":"; 0 if the
\* line has no such label
LabelLength(line) ==
  LET st == IF line # <<>> /\ line[1] = "*" THEN 1 ELSE 0
      d == DigitRun(line, st + 3)
  IN IF ~(Len(line) >= st + 2 /\ line[st + 1] = "[Footnote") THEN 0
     ELSE IF line[st + 2] = ":" THEN st + 2
     ELSE IF line[st + 2] # " " THEN 0
     ELSE IF d >= 1 /\ Len(line) >= st + 3 + d /\ line[st + 3 + d] = ":"
          THEN st + 3 + d
     ELSE IF Len(line) >= st + 4 /\ line[st + 3] \in Letters /\ line[st + 4] = ":"
          THEN st + 4
     ELSE 0

\* the line without its closing "]" or "]*"
WithoutClose(line) ==
  IF EndsClosed(line)
  THEN SubSeq(line, 1, (CHOOSE j \in 1..Len(line) :
                          line[j] = "]" /\ \A i \in (j + 1)..Len(line) : line[i] = "*") - 1)
  ELSE line

\* the block without the label (and the space after it) of its first line
\* and without the closing of its last line
BodyOf(fnBlock) ==
  LET n == LabelLength(fnBlock[1])
      b1 == [fnBlock EXCEPT ![1] = IF n = 0 THEN @
                                   ELSE IF Len(@) > n /\ @[n + 1] = " "
                                        THEN Drop(@, n + 1)
                                        ELSE Drop(@, n)]
  IN [b1 EXCEPT ![Len(b1)] = WithoutClose(@)]

\* C11: when every block of the buffer closes, the fnText of every record
\* the parser returns is its fnBlock without
\* the opening label (digits, a letter or none, with or without a leading
\* asterisk) and without the closing "]" or "]*"; nothing else is changed
C11_BodyTextExtraction ==
  [][(pc = "parse" /\ pc' = "join" /\ Unterminated(buf) = 0) =>
       \A k \in 1..Len(footnotes') :
         footnotes'[k].fnText = BodyOf(footnotes'[k].fnBlock)]_vars

\* C12: when every block of the buffer closes, the parser returns one record
\* per block in source order, each from its opening line to the first line
\* where the brackets opened since the opening are all closed and that ends
\* with "]" or "]*"
C12_NestedBrackets ==
  [][(pc = "parse" /\ Unterminated(buf) = 0) =>
       LET bs == SourceBlocks(buf, 1)
       IN /\ pc' = "join"
          /\ Len(footnotes') = Len(bs)
          /\ \A k \in 1..Len(bs) :
               /\ footnotes'[k].startLine = bs[k].first - 1
               /\ footnotes'[k].endLine = bs[k].last - 1
               /\ footnotes'[k].fnBlock = SubSeq(buf, bs[k].first, bs[k].last)]_vars

----------------------------------------------------------------------------
(* Errors *)

CountError == "ERROR: Footnote anchor count does not match footnote count"

\* C13: a run in which the number of resolved anchors differs from the
\* number of records ends normally, with the buffer the emitter produced,
\* and has reported the difference
C13_IntegrityCheck ==
  (Terminal /\ fnUniqueAnchorCount # Len(footnotes)) =>
    (pc = "done" /\ InSeq(CountError, log))

\* C19: while footnotes are joined and anchors resolved, in a buffer whose
\* blocks all close, no step ends the run: errors are logged and the run
\* goes on
C19_ErrorsDoNotAbort ==
  [][(/\ pc \in {"join", "anchorLine", "anchorMatch"}
      /\ ~ResolverDone
      /\ Unterminated(parseBuf) = 0)
       => pc' \notin {"fatal", "crashed"}]_vars

DestinationError == "ERROR: Unrecognized value for --fndest"

\* C16: with a destination that is none of bookend, chapterend,
\* paragraphend, inplace, a well-formed document that holds a footnote block
\* (and ends with a blank line) gives an error about the destination and
\* comes back as it was given: the same lines in the same order
C16_UnsupportedDestination ==
  (/\ Terminal
   /\ dest \notin Destinations
   /\ WellFormedInput(doc)
   /\ SourceBlocks(doc, 1) # <<>>
   /\ Last(doc) = Blank)
    => (pc = "done" /\ InSeq(DestinationError, log) /\ buf = doc)

----------------------------------------------------------------------------
(* The worked example *)

Example == <<ExampleFn, ExampleRef, PageBreak(4)>>

\* C20: the lines "[Footnote A: Some note.]", "Reference[A] in text.",
\* "// 010.png" with destination bookend give an output that holds the line
\* "Reference[1] in text." and ends with the directive block of footnote 1
\* with the body "Some note."
C20_WorkedExample ==
  (doc = Example /\ dest = "bookend" /\ Terminal) =>
    /\ pc = "done"
    /\ InSeq(<<"Reference", "[", "1", "]", " ", "in", " ", "text", ".">>, buf)
    /\ Directives(buf, 1) =
         <<[num |-> <<"1">>, body |-> <<(<<"Some", " ", "note", ".">>)>>]>>

----------------------------------------------------------------------------
(* Destination chapterend *)

\* C14: with destination chapterend the directive blocks are grouped by
\* chapterEnd and every group is terminated by one .fm line that follows the
\* last directive block of the group: a closing .fn- line is followed by the
\* next block of its group or by .fm, every .fm line follows a closing line,
\* and there is one .fm line for each chapterEnd
C14_ChapterendGrouping ==
  (pc = "done" /\ dest = "chapterend" /\ WellFormedInput(doc) /\ log = <<>>) =>
    /\ \A n \in 1..Len(buf) :
         buf[n] = FnClose =>
           n < Len(buf) /\ (buf[n + 1] = fmText \/ IsFnOpen(buf[n + 1]))
    /\ \A n \in 1..Len(buf) :
         buf[n] = fmText => n > 1 /\ buf[n - 1] = FnClose
    /\ Cardinality({n \in 1..Len(buf) : buf[n] = fmText})
         = Cardinality({footnotes[k].chapterEnd : k \in 1..Len(footnotes)})

----------------------------------------------------------------------------
(* Destination inplace *)

\* buffer b from line n on with one line ".fn" for every directive block and
\* without the .fm lines
RECURSIVE Outline(_, _)
Outline(b, n) ==
  IF n > Len(b) THEN <<>>
  ELSE IF IsFnOpen(b[n])
       THEN <<(<<".fn">>)>> \o Outline(b, DirectiveEnd(b, n + 1) + 1)
  ELSE IF b[n] = fmText THEN Outline(b, n + 1)
  ELSE <<b[n]>> \o Outline(b, n + 1)

\* buffer b from line n on with one line ".fn" for the block of every record
\* of fns and without the blocks that have no record of their own (the
\* continuations merged into an earlier record)
RECURSIVE SourceOutline(_, _, _)
SourceOutline(b, fns, n) ==
  IF n > Len(b) THEN <<>>
  ELSE IF \E k \in 1..Len(fns) : fns[k].startLine = n - 1
       THEN LET k == CHOOSE j \in 1..Len(fns) : fns[j].startLine = n - 1
            IN <<(<<".fn">>)>> \o SourceOutline(b, fns, fns[k].endLine + 2)
  ELSE IF OpensFootnote(b[n])
       THEN LET e == ClosingLine(b, n, 0)
            IN IF e = 0 THEN <<>> ELSE SourceOutline(b, fns, e + 1)
  ELSE <<b[n]>> \o SourceOutline(b, fns, n + 1)

\* C15: with destination inplace the emitter puts the directive block of
\* every record where the record's bracketed block was, the other lines keep
\* their content and their order, and the buffer it returns has no line that
\* opens a footnote block
C15_InplaceReplaces ==
  [][(/\ pc = "anchorLine"
      /\ lineNum >= Len(buf)
      /\ dest = "inplace"
      /\ footnotes # <<>>) =>
       (/\ pc' = "done"
        /\ Outline(buf', 1) = SourceOutline(buf, footnotes, 1)
        /\ Directives(buf', 1)
             = [k \in 1..Len(footnotes) |->
                  [num |-> Fmt(k), body |-> footnotes[k].fnText]]
        /\ \A n \in 1..Len(buf') : ~OpensFootnote(buf'[n]))]_vars

----------------------------------------------------------------------------
(* The validation gate of main *)

----------------------------------------------------------------------------
(* A second run *)

----------------------------------------------------------------------------
(* Termination of the stripper *)

\* C27: stripFootnoteMarkup terminates on every finite buffer, also on one
\* whose last line opens a footnote block: the step of processFootnotes that
\* calls it never ends in a loop without end
C27_StripTerminates ==
  [][(pc = "join" /\ joinI <= 0 /\ dest # "inplace") => pc' # "hung"]_vars

----------------------------------------------------------------------------
(* The id of a record *)

\* C29: the id of every record is the label of the record's own opening
\* line; a block whose opening line has no label that the id pattern accepts
\* does not get the id of a block parsed before it, and the scan does not
\* fail when such a block is the first one
C29_OwnLabel ==
  [][pc = "parse" =>
       /\ pc' # "crashed"
       /\ \A k \in 1..Len(footnotes') :
            LET own == FootnoteLabel(footnotes'[k].fnBlock[1])
            IN IF own # NoLabel
               THEN footnotes'[k].fnID = own
               ELSE \A j \in 1..(k - 1) : footnotes'[j].fnID # footnotes'[k].fnID]_vars

----------------------------------------------------------------------------
(* The scan page of a record *)

\* C26: the scanPageNum of every record that parseFootnotes builds is the
\* identifier of the most recent page break line at or before the record's
\* first line, whatever the blocks before it hold
C26_ScanPageTagging ==
  [][(pc = "parse" /\ pc' = "join") =>
       \A k \in 1..Len(footnotes') :
         footnotes'[k].scanPageNum = PageAt(buf, footnotes'[k].startLine + 1)]_vars

----------------------------------------------------------------------------
(* Parser and stripper *)

\* the lines of b from line n (1-based) on that lie in the source range
\* [startLine, endLine] of no record of fns
RECURSIVE OutsideRecords(_, _, _)
OutsideRecords(b, fns, n) ==
  IF n > Len(b) THEN <<>>
  ELSE IF \E k \in 1..Len(fns) : fns[k].startLine < n /\ n <= fns[k].endLine + 1
       THEN OutsideRecords(b, fns, n + 1)
       ELSE <<b[n]>> \o OutsideRecords(b, fns, n + 1)

\* C28: on the buffer that parseFootnotes has scanned, stripFootnoteMarkup
\* returns, and what it returns is the buffer without the lines of the source
\* ranges of the blocks that parseFootnotes found, the other lines in order
C28_ParserStripperAgree ==
  [][(pc = "parse" /\ pc' = "join") =>
       /\ ~stripFootnoteMarkup(buf).hung
       /\ stripFootnoteMarkup(buf).out = OutsideRecords(buf, footnotes', 1)]_vars

----------------------------------------------------------------------------
(* Termination of the line searches *)

\* C30: the search for the previous line of original text that the anchor
\* resolver makes from the next chapter heading terminates on every buffer,
\* also when no line of original text stands before the heading: no step of
\* the resolver ends in a loop without end
C30_SearchTerminates ==
  [][pc = "anchorMatch" => pc' # "hung"]_vars

----------------------------------------------------------------------------
(* The insertion points of a record *)

\* C25: when processFootnoteAnchors has returned and every record was matched
\* by an anchor, the paragraphEnd and the chapterEnd of every record are line
\* indices of the buffer (0 <= index <= length), also for a record whose
\* anchor stands in the last paragraph or the last chapter
C25_EndsPopulated ==
  (/\ ResolverDone
   /\ WellFormedInput(doc)
   /\ footnotes # <<>>
   /\ fnUniqueAnchorCount = Len(footnotes)) =>
    \A k \in 1..Len(footnotes) :
      /\ 0 <= footnotes[k].paragraphEnd /\ footnotes[k].paragraphEnd <= Len(buf)
      /\ 0 <= footnotes[k].chapterEnd /\ footnotes[k].chapterEnd <= Len(buf)

----------------------------------------------------------------------------
(* Duplicate anchors and the insertion points *)

\* C22: the paragraphEnd and the chapterEnd of a record are set by the first
\* anchor resolved to it; the resolution of a later anchor with the same id
\* on the same page changes the paragraphEnd and the chapterEnd of no record
C22_DuplicateKeepsEnds ==
  [][(/\ pc = "anchorMatch"
      /\ pending # <<>>
      /\ InSeq(Head(pending), fnIDs)
      /\ InSeq(Head(pending), anchorsThisPage)) =>
       /\ Len(footnotes') = Len(footnotes)
       /\ \A k \in 1..Len(footnotes) :
            /\ footnotes'[k].paragraphEnd = footnotes[k].paragraphEnd
            /\ footnotes'[k].chapterEnd = footnotes[k].chapterEnd]_vars

----------------------------------------------------------------------------
(* Anchors and footnote blocks *)

\* C24: with every destination the anchor resolver reads a buffer without
\* footnote blocks: no anchor that it counts, renumbers or reports stands on
\* a line inside a footnote block of the buffer it reads
C24_AnchorsOutsideBlocks ==
  InResolver =>
    \A i \in 1..Len(anchorLog) : ~InBlock(buf, anchorLog[i].line + 1)

\* C21: in chapterend and paragraphend modes the emitter inserts the blocks
\* from the last record to the first, and in its output the directive blocks
\* stand in ascending footnote-number order: the k-th block of the output is
\* the block of record k, for every record list the resolver hands over.
C21_ReverseInsertionKeepsOrder ==
  [][(/\ ResolverDone
      /\ dest \in {"chapterend", "paragraphend"}
      /\ pc' = "done")
     => LET ds == Directives(buf', 1)
        IN /\ Len(ds) = Len(footnotes)
           /\ \A k \in 1..Len(ds) : ds[k].num = Fmt(k)]_vars

\* the lines the emitter writes around the blocks of the bookend section
WrapperLines == {BookendHeader[i] : i \in 1..Len(BookendHeader)} \cup {<<".dv", "-">>}

\* buffer b from line n on without the generated lines: the wrapper lines,
\* the blocks from ".fn <number>" to ".fn-" with their bodies, the ".fm" lines
RECURSIVE WithoutGenerated(_, _)
WithoutGenerated(b, n) ==
  IF n > Len(b) THEN <<>>
  ELSE IF IsFnOpen(b[n]) THEN WithoutGenerated(b, DirectiveEnd(b, n + 1) + 1)
  ELSE IF b[n] = fmText \/ b[n] \in WrapperLines THEN WithoutGenerated(b, n + 1)
  ELSE <<b[n]>> \o WithoutGenerated(b, n + 1)

\* C23: for the destinations bookend, chapterend and paragraphend the emitter
\* only inserts: when it returns, its output without the generated lines
\* (wrapper lines, .fn/.fn- blocks with their bodies, .fm markers) is exactly
\* the buffer it was given, the same lines in the same order.
C23_RelocationOnlyInserts ==
  [][(/\ ResolverDone
      /\ dest \in {"bookend", "chapterend", "paragraphend"}
      /\ pc' = "done")
     => WithoutGenerated(buf', 1) = buf]_vars

\* the emitter has returned a buffer longer than the document, with blocks
\* of two records placed at different insertion points or in the section
C23_Witness ==
  /\ pc = "done"
  /\ dest \in {"chapterend", "paragraphend"}
  /\ Len(footnotes) = 2
  /\ footnotes[1].chapterEnd # footnotes[2].chapterEnd
  /\ footnotes[1].paragraphEnd # footnotes[2].paragraphEnd
  /\ Len(Directives(buf, 1)) = 2
  /\ Len(buf) > Len(WithoutGenerated(buf, 1)) + 6

====
